---------------------------- MODULE Spec2Model ----------------------------
(***************************************************************************)
(* Model of the core of neemee-mcp's lib/mcp-auth: the notebook resolver   *)
(* (resolveNotebook with normalizeForSearch) and the API-key authenticator *)
(* (validateApiKey with its module-level keyCache).                        *)
(*                                                                         *)
(* Strings are sequences of one-character strings, so that lowercasing,    *)
(* the regular expressions and String.prototype.includes are computed, not *)
(* assumed.  A nullable column holds NullText when it is NULL.             *)
(***************************************************************************)
EXTENDS Integers, Sequences, FiniteSets, TLC

(***************************************************************************)
(* Bounds of the model.                                                    *)
(***************************************************************************)
MaxNotebooks == 2
MaxKeys == 2
MaxTicks == 3
MaxPendingUpdates == 1
MaxTextLen == 5

(***************************************************************************)
(* Characters and the JavaScript string primitives the code uses.          *)
(***************************************************************************)
UpperChars == <<"A","B","C","D","E","F","G","H","I","J","K","L","M",
                "N","O","P","Q","R","S","T","U","V","W","X","Y","Z">>
LowerChars == <<"a","b","c","d","e","f","g","h","i","j","k","l","m",
                "n","o","p","q","r","s","t","u","v","w","x","y","z">>
DigitChars == <<"0","1","2","3","4","5","6","7","8","9">>

Range(s) == {s[i] : i \in DOMAIN s}

NullText == <<"null">>

\* String.prototype.toLowerCase, one character
toLowerCaseChar(c) ==
  IF \E i \in DOMAIN UpperChars : UpperChars[i] = c
  THEN LowerChars[CHOOSE i \in DOMAIN UpperChars : UpperChars[i] = c]
  ELSE c

\* String.prototype.toLowerCase
toLowerCase(s) == [i \in 1..Len(s) |-> toLowerCaseChar(s[i])]

\* the regular-expression class \w
IsWordChar(c) ==
  c \in Range(UpperChars) \cup Range(LowerChars) \cup Range(DigitChars) \cup {"_"}

\* the regular-expression class \s
IsWhitespace(c) == c \in {" ", "\t", "\n", "\r"}

\* String.prototype.includes: t occurs in s as a contiguous run
includes(s, t) ==
  \E i \in 0..(Len(s) - Len(t)) : SubSeq(s, i + 1, i + Len(t)) = t

\* .replace(/[^\w\s]/g, '')
RemovePunctuation(s) == SelectSeq(s, LAMBDA c : IsWordChar(c) \/ IsWhitespace(c))

\* .replace(/\s+/g, ' ')
RECURSIVE CollapseWhitespace(_)
CollapseWhitespace(s) ==
  IF s = <<>> THEN <<>>
  ELSE IF IsWhitespace(Head(s))
       THEN IF Len(s) > 1 /\ IsWhitespace(s[2])
            THEN CollapseWhitespace(Tail(s))
            ELSE <<" ">> \o CollapseWhitespace(Tail(s))
       ELSE <<Head(s)>> \o CollapseWhitespace(Tail(s))

\* String.prototype.trim
RECURSIVE Trim(_)
Trim(s) ==
  IF s = <<>> THEN <<>>
  ELSE IF IsWhitespace(Head(s)) THEN Trim(Tail(s))
  ELSE IF IsWhitespace(s[Len(s)]) THEN Trim(SubSeq(s, 1, Len(s) - 1))
  ELSE s

\* variant of normalizeForSearch that collapses whitespace before it removes punctuation
normalizeCollapseFirst(text) ==
  Trim(RemovePunctuation(CollapseWhitespace(toLowerCase(text))))

\* variant of normalizeForSearch without the final trim
normalizeUntrimmed(text) ==
  CollapseWhitespace(RemovePunctuation(toLowerCase(text)))

normalizeForSearch(text) ==
  Trim(CollapseWhitespace(RemovePunctuation(toLowerCase(text))))

(***************************************************************************)
(* The notebook-id token format /^cm[a-z0-9]{23}$/.                        *)
(***************************************************************************)
CuidPrefix == <<"c","m">>
CuidBodyLen == 23

isCuidFormat(q) ==
  /\ Len(q) = Len(CuidPrefix) + CuidBodyLen
  /\ SubSeq(q, 1, Len(CuidPrefix)) = CuidPrefix
  /\ \A i \in (Len(CuidPrefix) + 1)..Len(q) :
       q[i] \in Range(LowerChars) \cup Range(DigitChars)

(***************************************************************************)
(* The data the resolver is exercised on.                                  *)
(***************************************************************************)
Tenants == {"u1", "u2"}

\* the id the store gives its i-th notebook; NotebookId(0) is a well-formed
\* id that no notebook has
NotebookId(i) == CuidPrefix \o [j \in 1..CuidBodyLen |-> DigitChars[i + 1]]

StrResearch == <<"R","e","s","e","a","r","c","h">>
StrResearchArchive == <<"R","e","s","e","a","r","c","h"," ","A","r","c","h","i","v","e">>
StrProjectAlpha == <<"P","r","o","j","e","c","t"," ","A","l","p","h","a","!","!">>
QryResearchLower == <<"r","e","s","e","a","r","c","h">>
QryArch == <<"A","r","c","h">>
QryResarch == <<"r","e","s","a","r","c","h">>
QryProjectAlpha == <<"p","r","o","j","e","c","t"," ","a","l","p","h","a">>
QryResearchCommaArchive ==
  <<"r","e","s","e","a","r","c","h",","," "," ","a","r","c","h","i","v","e">>
QryResearchCommaArchiveCaps ==
  <<"R","E","S","E","A","R","C","H",","," "," ","A","R","C","H","I","V","E">>
\* NotebookId(1) typed in capitals
QryIdCaps == <<"C","M">> \o [j \in 1..CuidBodyLen |-> DigitChars[2]]

NotebookNames == {StrResearch, StrResearchArchive, StrProjectAlpha}
NotebookDescriptions == {NullText, NotebookId(1)}
NotebookRecords ==
  [userId : Tenants, name : NotebookNames, description : NotebookDescriptions]
StoredIds == {NotebookId(i) : i \in 1..MaxNotebooks}
NotebookStores == UNION {[ids -> NotebookRecords] : ids \in SUBSET StoredIds}

NotebookQueries ==
  {StrResearch, QryResearchLower, QryArch, QryResarch, QryProjectAlpha,
   QryResearchCommaArchive, QryResearchCommaArchiveCaps, QryIdCaps}
    \cup {NotebookId(i) : i \in 0..MaxNotebooks}

VARIABLES
  notebooks,   \* the notebook table: id -> [userId, name, description]
  rpc,         \* position of the resolveNotebook call in flight
  rUser,       \* params.userId
  rQuery,      \* params.notebookQuery
  rNotebooks,  \* the rows the substring search returned (their ids)
  rResult,     \* the ids the call returns
  rOps,        \* the queries the call has sent to the store, in order
  now,         \* the clock, Date.now() in milliseconds
  apiKeys,     \* the userApiKey table, in the order findMany returns it
  keyCache,    \* the module-level Map: raw key -> cache entry
  calls,       \* the validateApiKey calls: call id -> its position and locals
  lastUsedUpdates, \* the lastUsedAt updates started and not yet settled
  lastUsedAt,  \* userApiKey.lastUsedAt: key id -> instant
  lastVerifiedAt,  \* history: raw key -> instant of its latest successful bcrypt match
  notes,       \* the note table: id -> [userId, notebookId, content]
  resp,        \* the request the server handled last and its response
  scopeCall,   \* the latest hasRequiredScope application: arguments and result
  filterCall,  \* the latest filter-builder application: params and where
  normCall,    \* the latest normalizeForSearch application: text and results
  limitCall,   \* the latest computation of a result limit: handler, input and limit
  dbReachable  \* whether the database answers the queries prisma sends

resolverVars == <<rpc, rUser, rQuery, rNotebooks, rResult, rOps>>
authVars == <<now, apiKeys, keyCache, calls, lastUsedUpdates, lastUsedAt, lastVerifiedAt>>
toolVars == <<notes, resp>>
pureVars == <<scopeCall, filterCall, normCall, limitCall>>
vars == <<notebooks, resolverVars, authVars, toolVars, pureVars, dbReachable>>

(***************************************************************************)
(* The three store queries of resolveNotebook.                             *)
(***************************************************************************)
\* prisma.notebook.findFirst({ where: { id, userId } })
FindNotebookById(userId, id) ==
  IF id \in DOMAIN notebooks /\ notebooks[id].userId = userId THEN {id} ELSE {}

\* { contains: q, mode: 'insensitive' } on a nullable text column
ContainsSensitive(column, q) ==
  column # NullText /\ includes(column, q)
ContainsInsensitive(column, q) ==
  column # NullText /\ includes(toLowerCase(column), toLowerCase(q))

\* prisma.notebook.findMany({ where: { userId, OR: [name contains, description contains] } })
FindNotebooksUnscoped(userId, q) ==
  {id \in DOMAIN notebooks :
     \/ ContainsInsensitive(notebooks[id].name, q)
     \/ ContainsInsensitive(notebooks[id].description, q)}
FindNotebooksContaining(userId, q) ==
  {id \in DOMAIN notebooks :
     /\ notebooks[id].userId = userId
     /\ \/ ContainsInsensitive(notebooks[id].name, q)
        \/ ContainsInsensitive(notebooks[id].description, q)}

\* prisma.notebook.findMany({ where: { userId } })
FindAllNotebooks(userId) ==
  {id \in DOMAIN notebooks : notebooks[id].userId = userId}

\* notebooks.filter(nb => nb.name.toLowerCase() === notebookQuery.toLowerCase())
ExactMatchesSensitive(found, q) ==
  {id \in found : notebooks[id].name = q}
ExactMatches(found, q) ==
  {id \in found : toLowerCase(notebooks[id].name) = toLowerCase(q)}

\* nb.description || ''
DescriptionOrEmpty(d) == IF d = NullText THEN <<>> ELSE d

\* the filter of the fuzzy fallback
NormalizedMatches(all, q) ==
  LET normalizedQuery == normalizeForSearch(q)
  IN {id \in all :
        LET normalizedName == normalizeForSearch(notebooks[id].name)
            normalizedDesc ==
              normalizeForSearch(DescriptionOrEmpty(notebooks[id].description))
        IN \/ includes(normalizedQuery, normalizedName)
           \/ includes(normalizedName, normalizedQuery)
           \/ includes(normalizedQuery, normalizedDesc)
           \/ includes(normalizedDesc, normalizedQuery)}

\* the ids a whole call returns, as a function of the table
resolveNotebook(userId, q) ==
  LET notebookById == IF isCuidFormat(q) THEN FindNotebookById(userId, q) ELSE {}
      found == FindNotebooksContaining(userId, q)
      exactMatches == ExactMatches(found, q)
  IN IF notebookById # {} THEN notebookById
     ELSE IF exactMatches # {} THEN exactMatches
     ELSE IF found # {} THEN found
     ELSE NormalizedMatches(FindAllNotebooks(userId), q)

(***************************************************************************)
(* resolveNotebook, one action per await.                                  *)
(***************************************************************************)
ResolveStart ==
  /\ rpc = "idle"
  /\ \E userId \in Tenants, q \in NotebookQueries :
       /\ rUser' = userId
       /\ rQuery' = q
       /\ rpc' = IF isCuidFormat(q) THEN "findFirst" ELSE "findMany"
  /\ rNotebooks' = {}
  /\ rResult' = {}
  /\ rOps' = <<>>
  /\ UNCHANGED <<notebooks, toolVars, pureVars, dbReachable, authVars>>

ResolveFindFirstFallThrough ==
  /\ rpc = "findFirst"
  /\ rOps' = Append(rOps, "findFirst")
  /\ rpc' = "findMany"
  /\ UNCHANGED <<notebooks, toolVars, pureVars, dbReachable, authVars, rUser, rQuery, rNotebooks, rResult>>
ResolveFindFirst ==
  /\ rpc = "findFirst"
  /\ rOps' = Append(rOps, "findFirst")
  /\ LET notebookById == FindNotebookById(rUser, rQuery)
     IN IF notebookById # {}
        THEN rResult' = notebookById /\ rpc' = "done"
        ELSE rResult' = rResult /\ rpc' = "findMany"
  /\ UNCHANGED <<notebooks, toolVars, pureVars, dbReachable, authVars, rUser, rQuery, rNotebooks>>

ResolveFindManyNoPartialReturn ==
  /\ rpc = "findMany"
  /\ rOps' = Append(rOps, "findMany")
  /\ LET found == FindNotebooksContaining(rUser, rQuery)
         exactMatches == ExactMatches(found, rQuery)
     IN /\ rNotebooks' = found
        /\ IF exactMatches # {}
           THEN rResult' = exactMatches /\ rpc' = "done"
           ELSE rResult' = rResult /\ rpc' = "findAll"
  /\ UNCHANGED <<notebooks, toolVars, pureVars, dbReachable, authVars, rUser, rQuery>>
ResolveFindManyFirstOnly ==
  /\ rpc = "findMany"
  /\ rOps' = Append(rOps, "findMany")
  /\ LET found == FindNotebooksContaining(rUser, rQuery)
         exactMatches == ExactMatches(found, rQuery)
     IN /\ rNotebooks' = found
        /\ IF exactMatches # {}
           THEN rResult' = exactMatches /\ rpc' = "done"
           ELSE IF found # {}
                THEN rResult' = {CHOOSE id \in found : TRUE} /\ rpc' = "done"
                ELSE rResult' = rResult /\ rpc' = "findAll"
  /\ UNCHANGED <<notebooks, toolVars, pureVars, dbReachable, authVars, rUser, rQuery>>
ResolveFindMany ==
  /\ rpc = "findMany"
  /\ rOps' = Append(rOps, "findMany")
  /\ LET found == FindNotebooksContaining(rUser, rQuery)
         exactMatches == ExactMatches(found, rQuery)
     IN /\ rNotebooks' = found
        /\ IF exactMatches # {}
           THEN rResult' = exactMatches /\ rpc' = "done"
           ELSE IF found # {}
                THEN rResult' = found /\ rpc' = "done"
                ELSE rResult' = rResult /\ rpc' = "findAll"
  /\ UNCHANGED <<notebooks, toolVars, pureVars, dbReachable, authVars, rUser, rQuery>>

ResolveFindAll ==
  /\ rpc = "findAll"
  /\ rOps' = Append(rOps, "findAll")
  /\ rResult' = NormalizedMatches(FindAllNotebooks(rUser), rQuery)
  /\ rpc' = "done"
  /\ UNCHANGED <<notebooks, toolVars, pureVars, dbReachable, authVars, rUser, rQuery, rNotebooks>>

\* the caller takes the returned ids; the next call may start
ResolveReturn ==
  /\ rpc = "done"
  /\ rpc' = "idle"
  /\ rUser' = "u1"
  /\ rQuery' = <<>>
  /\ rNotebooks' = {}
  /\ rResult' = {}
  /\ rOps' = <<>>
  /\ UNCHANGED <<notebooks, toolVars, pureVars, dbReachable, authVars>>

(***************************************************************************)
(* The API-key authenticator: validateApiKey and its keyCache.             *)
(***************************************************************************)
NullTime == 0 - 1
NullContext == [userId |-> "none", scopes |-> {}, keyId |-> "none"]

\* 5 * 60 * 1000, the lifetime of a cache entry in milliseconds
CacheTtlMs == 5 * 60 * 1000
\* the step of the clock: a call can fall before, on and after an entry's expiry
TickMs == CacheTtlMs \div 2

RawKeys == {"rawA", "rawB"}
ApiKeyInputs == RawKeys \cup {"rawX"}

\* bcrypt: the stored hash of a raw key, and bcrypt.compare
BcryptHash(raw) == <<"bcrypt", raw>>
BcryptCompare(raw, hash) == hash = BcryptHash(raw)

KeyIds == <<"key1", "key2", "key3", "key4">>
KeyOwners == <<"u1", "u2", "u1", "u2">>
KeyScopes == <<{"read"}, {"read", "write"}, {"admin"}, {"write"}>>
KeyExpiries == {NullTime, TickMs}

KeyRecords(i) ==
  [id : {KeyIds[i]}, userId : {KeyOwners[i]}, keyHash : {BcryptHash(r) : r \in RawKeys},
   scopes : {KeyScopes[i]}, expiresAt : KeyExpiries]
KeyTables ==
  UNION {{t \in [1..n -> UNION {KeyRecords(i) : i \in 1..n}] :
            \A i \in 1..n : t[i] \in KeyRecords(i)} : n \in 0..MaxKeys}

\* the call slots of the sequential specification: one call at a time
SequentialCalls == {1}

IdleCall ==
  [pc |-> "idle", apiKey |-> "none", startedAt |-> NullTime,
   priorVerifiedAt |-> NullTime, hit |-> FALSE,
   candidates |-> <<>>, next |-> 1, lookups |-> 0, compares |-> 0,
   error |-> "none", result |-> NullContext]

\* cachedResult && cachedResult.expiresAt > Date.now()
CacheEntryUsableAtExpiry(apiKey, t) ==
  apiKey \in DOMAIN keyCache /\ keyCache[apiKey].expiresAt >= t
CacheEntryUsable(apiKey, t) ==
  apiKey \in DOMAIN keyCache /\ keyCache[apiKey].expiresAt > t

\* where: { OR: [{ expiresAt: null }, { expiresAt: { gt: new Date() } }] }
ActiveApiKeys(t) ==
  SelectSeq(apiKeys, LAMBDA key : key.expiresAt = NullTime \/ key.expiresAt > t)

ContextOf(key) == [userId |-> key.userId, scopes |-> key.scopes, keyId |-> key.id]

\* variant of ValidateStart in which a hit moves the expiry of the entry
ValidateStartSliding(c) ==
  /\ calls[c].pc = "idle"
  /\ \E apiKey \in ApiKeyInputs :
       IF CacheEntryUsable(apiKey, now)
       THEN /\ keyCache' = [keyCache EXCEPT ![apiKey].expiresAt = now + CacheTtlMs]
            /\ calls' = [calls EXCEPT ![c] =
              [IdleCall EXCEPT !.pc = "done", !.apiKey = apiKey, !.startedAt = now,
                 !.priorVerifiedAt = lastVerifiedAt[apiKey], !.hit = TRUE,
                 !.result = [userId |-> keyCache[apiKey].userId,
                             scopes |-> keyCache[apiKey].scopes,
                             keyId |-> keyCache[apiKey].keyId]]]
       ELSE /\ keyCache' = keyCache
            /\ calls' = [calls EXCEPT ![c] =
              [IdleCall EXCEPT !.pc = "lookup", !.apiKey = apiKey, !.startedAt = now,
                 !.priorVerifiedAt = lastVerifiedAt[apiKey]]]
  /\ UNCHANGED <<notebooks, toolVars, pureVars, dbReachable, resolverVars, now, apiKeys, lastUsedUpdates,
                 lastUsedAt, lastVerifiedAt>>

\* lines 27-35: the cache check; a usable entry is returned at once
ValidateStart(c) ==
  /\ calls[c].pc = "idle"
  /\ \E apiKey \in ApiKeyInputs :
       IF CacheEntryUsable(apiKey, now)
       THEN calls' = [calls EXCEPT ![c] =
              [IdleCall EXCEPT !.pc = "done", !.apiKey = apiKey, !.startedAt = now,
                 !.priorVerifiedAt = lastVerifiedAt[apiKey], !.hit = TRUE,
                 !.result = [userId |-> keyCache[apiKey].userId,
                             scopes |-> keyCache[apiKey].scopes,
                             keyId |-> keyCache[apiKey].keyId]]]
       ELSE calls' = [calls EXCEPT ![c] =
              [IdleCall EXCEPT !.pc = "lookup", !.apiKey = apiKey, !.startedAt = now,
                 !.priorVerifiedAt = lastVerifiedAt[apiKey]]]
  /\ UNCHANGED <<notebooks, toolVars, pureVars, dbReachable, resolverVars, now, apiKeys, keyCache, lastUsedUpdates,
                 lastUsedAt, lastVerifiedAt>>

\* lines 38-53: findMany of the keys that have not expired; an empty list
\* ends the loop before it starts (line 83)
ValidateLookup(c) ==
  /\ calls[c].pc = "lookup"
  /\ LET found == ActiveApiKeys(now)
     IN calls' = [calls EXCEPT ![c].candidates = found,
                               ![c].lookups = @ + 1,
                               ![c].pc = IF found = <<>> THEN "done" ELSE "compare"]
  /\ UNCHANGED <<notebooks, toolVars, pureVars, dbReachable, resolverVars, now, apiKeys, keyCache, lastUsedUpdates,
                 lastUsedAt, lastVerifiedAt>>

\* variant of ValidateLookupFails that deletes the cache entry of the raw key
ValidateLookupFailsEvicting(c) ==
  /\ calls[c].pc = "lookup"
  /\ calls' = [calls EXCEPT ![c].lookups = @ + 1, ![c].error = "lookup",
                            ![c].pc = "done"]
  /\ keyCache' = [k \in DOMAIN keyCache \ {calls[c].apiKey} |-> keyCache[k]]
  /\ UNCHANGED <<notebooks, toolVars, pureVars, dbReachable, resolverVars, now, apiKeys, lastUsedUpdates,
                 lastUsedAt, lastVerifiedAt>>

\* lines 84-87: findMany rejects; the catch block returns null
ValidateLookupFails(c) ==
  /\ calls[c].pc = "lookup"
  /\ calls' = [calls EXCEPT ![c].lookups = @ + 1, ![c].error = "lookup",
                            ![c].pc = "done"]
  /\ UNCHANGED <<notebooks, toolVars, pureVars, dbReachable, resolverVars, now, apiKeys, keyCache, lastUsedUpdates,
                 lastUsedAt, lastVerifiedAt>>

\* variant of ValidateCompare that caches the first candidate, not the verified one
ValidateCompareCachesFirst(c) ==
  /\ calls[c].pc = "compare"
  /\ Cardinality(lastUsedUpdates) < MaxPendingUpdates
  /\ LET key == calls[c].candidates[calls[c].next]
         last == calls[c].next = Len(calls[c].candidates)
     IN IF BcryptCompare(calls[c].apiKey, key.keyHash)
        THEN /\ keyCache' =
                  [k \in DOMAIN keyCache \cup {calls[c].apiKey} |->
                     IF k = calls[c].apiKey
                     THEN [userId |-> calls[c].candidates[1].userId,
                           scopes |-> calls[c].candidates[1].scopes,
                           keyId |-> calls[c].candidates[1].id,
                           expiresAt |-> now + CacheTtlMs]
                     ELSE keyCache[k]]
             /\ lastUsedUpdates' = lastUsedUpdates \cup {[keyId |-> key.id, at |-> now]}
             /\ lastVerifiedAt' = [lastVerifiedAt EXCEPT ![calls[c].apiKey] = now]
             /\ calls' = [calls EXCEPT ![c].compares = @ + 1,
                                       ![c].result = ContextOf(key),
                                       ![c].pc = "done"]
        ELSE /\ calls' = [calls EXCEPT ![c].compares = @ + 1,
                                       ![c].next = @ + 1,
                                       ![c].pc = IF last THEN "done" ELSE "compare"]
             /\ UNCHANGED <<keyCache, lastUsedUpdates, lastVerifiedAt>>
  /\ UNCHANGED <<notebooks, toolVars, pureVars, dbReachable, resolverVars, now, apiKeys, lastUsedAt>>

\* variant of ValidateCompare that goes on with the loop after a match
ValidateCompareNoStop(c) ==
  /\ calls[c].pc = "compare"
  /\ Cardinality(lastUsedUpdates) < MaxPendingUpdates
  /\ LET key == calls[c].candidates[calls[c].next]
         last == calls[c].next = Len(calls[c].candidates)
     IN IF BcryptCompare(calls[c].apiKey, key.keyHash)
        THEN /\ keyCache' =
                  [k \in DOMAIN keyCache \cup {calls[c].apiKey} |->
                     IF k = calls[c].apiKey
                     THEN [userId |-> key.userId, scopes |-> key.scopes,
                           keyId |-> key.id, expiresAt |-> now + CacheTtlMs]
                     ELSE keyCache[k]]
             /\ lastUsedUpdates' = lastUsedUpdates \cup {[keyId |-> key.id, at |-> now]}
             /\ lastVerifiedAt' = [lastVerifiedAt EXCEPT ![calls[c].apiKey] = now]
             /\ calls' = [calls EXCEPT ![c].compares = @ + 1,
                                       ![c].result = ContextOf(key),
                                       ![c].next = IF last THEN @ ELSE @ + 1,
                                       ![c].pc = IF last THEN "done" ELSE "compare"]
        ELSE /\ calls' = [calls EXCEPT ![c].compares = @ + 1,
                                       ![c].next = @ + 1,
                                       ![c].pc = IF last THEN "done" ELSE "compare"]
             /\ UNCHANGED <<keyCache, lastUsedUpdates, lastVerifiedAt>>
  /\ UNCHANGED <<notebooks, toolVars, pureVars, dbReachable, resolverVars, now, apiKeys, lastUsedAt>>

\* lines 56-81: one iteration of the loop, bcrypt.compare of the next candidate
\* (the model holds a match back while MaxPendingUpdates updates are unsettled)
ValidateCompare(c) ==
  /\ calls[c].pc = "compare"
  /\ Cardinality(lastUsedUpdates) < MaxPendingUpdates
  /\ LET key == calls[c].candidates[calls[c].next]
         last == calls[c].next = Len(calls[c].candidates)
     IN IF BcryptCompare(calls[c].apiKey, key.keyHash)
        THEN /\ keyCache' =
                  [k \in DOMAIN keyCache \cup {calls[c].apiKey} |->
                     IF k = calls[c].apiKey
                     THEN [userId |-> key.userId, scopes |-> key.scopes,
                           keyId |-> key.id, expiresAt |-> now + CacheTtlMs]
                     ELSE keyCache[k]]
             /\ lastUsedUpdates' = lastUsedUpdates \cup {[keyId |-> key.id, at |-> now]}
             /\ lastVerifiedAt' = [lastVerifiedAt EXCEPT ![calls[c].apiKey] = now]
             /\ calls' = [calls EXCEPT ![c].compares = @ + 1,
                                       ![c].result = ContextOf(key),
                                       ![c].pc = "done"]
        ELSE /\ calls' = [calls EXCEPT ![c].compares = @ + 1,
                                       ![c].next = @ + 1,
                                       ![c].pc = IF last THEN "done" ELSE "compare"]
             /\ UNCHANGED <<keyCache, lastUsedUpdates, lastVerifiedAt>>
  /\ UNCHANGED <<notebooks, toolVars, pureVars, dbReachable, resolverVars, now, apiKeys, lastUsedAt>>

\* lines 84-87: bcrypt.compare rejects; the catch block returns null
ValidateCompareFails(c) ==
  /\ calls[c].pc = "compare"
  /\ calls' = [calls EXCEPT ![c].compares = @ + 1, ![c].error = "compare",
                            ![c].pc = "done"]
  /\ UNCHANGED <<notebooks, toolVars, pureVars, dbReachable, resolverVars, now, apiKeys, keyCache, lastUsedUpdates,
                 lastUsedAt, lastVerifiedAt>>

\* the caller takes the result; the slot is free for the next call
ValidateReturn(c) ==
  /\ calls[c].pc = "done"
  /\ calls' = [calls EXCEPT ![c] = IdleCall]
  /\ UNCHANGED <<notebooks, toolVars, pureVars, dbReachable, resolverVars, now, apiKeys, keyCache, lastUsedUpdates,
                 lastUsedAt, lastVerifiedAt>>

\* lines 68-70: the update started at line 68 reaches the database
LastUsedUpdateSucceeds ==
  /\ \E u \in lastUsedUpdates :
       /\ lastUsedUpdates' = lastUsedUpdates \ {u}
       /\ lastUsedAt' = [lastUsedAt EXCEPT ![u.keyId] = u.at]
  /\ UNCHANGED <<notebooks, toolVars, pureVars, dbReachable, resolverVars, now, apiKeys, keyCache, calls, lastVerifiedAt>>

\* variant of LastUsedUpdateFails that drops the key's cache entry on rejection
LastUsedUpdateFailsEvicting ==
  /\ \E u \in lastUsedUpdates :
       /\ lastUsedUpdates' = lastUsedUpdates \ {u}
       /\ keyCache' = [k \in {r \in DOMAIN keyCache : keyCache[r].keyId # u.keyId} |->
                         keyCache[k]]
  /\ UNCHANGED <<notebooks, toolVars, pureVars, dbReachable, resolverVars, now, apiKeys, calls, lastUsedAt,
                 lastVerifiedAt>>

\* lines 71-73: the update rejects; the error is logged and dropped
LastUsedUpdateFails ==
  /\ \E u \in lastUsedUpdates : lastUsedUpdates' = lastUsedUpdates \ {u}
  /\ UNCHANGED <<notebooks, toolVars, pureVars, dbReachable, resolverVars, now, apiKeys, keyCache, calls, lastUsedAt,
                 lastVerifiedAt>>

\* time passes
Tick ==
  /\ now < MaxTicks * TickMs
  /\ now' = now + TickMs
  /\ UNCHANGED <<notebooks, toolVars, pureVars, dbReachable, resolverVars, apiKeys, keyCache, calls, lastUsedUpdates,
                 lastUsedAt, lastVerifiedAt>>

\* the caller-side state before any request
Scopes == {"read", "write", "admin"}

\* the context getMcpAuthContext builds (lines 101-106)
AuthContexts ==
  [userId : Tenants, authType : {"api-key"}, scopes : SUBSET Scopes, keyId : {KeyIds[1]}]

NoScopeCall ==
  [impl |-> "none", authContext |-> CHOOSE a \in AuthContexts : TRUE,
   requiredScope |-> "read", result |-> FALSE]

NoFilterCall ==
  [builder |-> "none", params |-> "userId" :> "u1", where |-> "userId" :> "u1"]

NoResponse ==
  [op |-> "none", authContext |-> CHOOSE a \in AuthContexts : TRUE, args |-> <<>>,
   outcome |-> "none", message |-> "none", noteIds |-> {}]

ToolInit ==
  /\ notes = <<>>
  /\ resp = NoResponse

\* a JavaScript number: an integer or NaN
Num(n) == [nan |-> FALSE, n |-> n]
NaN == [nan |-> TRUE, n |-> 0]

NoLimitCall == [op |-> "none", given |-> FALSE, input |-> <<>>, limit |-> NaN]

NoNormCall == [applied |-> FALSE, text |-> <<>>, once |-> <<>>, twice |-> <<>>]

\* the database answers at the start; a query that rejects while it answers
\* is a choice of the specification that takes the rejecting step
DatabaseInit == dbReachable = TRUE

PureInit ==
  /\ scopeCall = NoScopeCall
  /\ filterCall = NoFilterCall
  /\ normCall = NoNormCall
  /\ limitCall = NoLimitCall

AuthInit ==
  /\ now = 0
  /\ keyCache = <<>>
  /\ calls = [c \in SequentialCalls |-> IdleCall]
  /\ lastUsedUpdates = {}
  /\ lastUsedAt = [k \in {apiKeys[i].id : i \in 1..Len(apiKeys)} |-> NullTime]
  /\ lastVerifiedAt = [k \in ApiKeyInputs |-> NullTime]

ResolverInit ==
  /\ rpc = "idle"
  /\ rUser = "u1"
  /\ rQuery = <<>>
  /\ rNotebooks = {}
  /\ rResult = {}
  /\ rOps = <<>>

InitResolve ==
  /\ notebooks \in NotebookStores
  /\ ResolverInit
  /\ apiKeys = <<>>
  /\ AuthInit
  /\ ToolInit
  /\ PureInit
  /\ DatabaseInit

NextResolve ==
  \/ ResolveStart
  \/ ResolveFindFirst
  \/ ResolveFindMany
  \/ ResolveFindAll
  \/ ResolveReturn

SpecResolve == InitResolve /\ [][NextResolve]_vars

InitAuth ==
  /\ notebooks = <<>>
  /\ ResolverInit
  /\ apiKeys \in KeyTables
  /\ AuthInit
  /\ ToolInit
  /\ PureInit
  /\ DatabaseInit

NextAuth ==
  \/ \E c \in DOMAIN calls : ValidateStart(c)
  \/ \E c \in DOMAIN calls : ValidateLookup(c)
  \/ \E c \in DOMAIN calls : ValidateLookupFails(c)
  \/ \E c \in DOMAIN calls : ValidateCompare(c)
  \/ \E c \in DOMAIN calls : ValidateCompareFails(c)
  \/ \E c \in DOMAIN calls : ValidateReturn(c)
  \/ LastUsedUpdateSucceeds
  \/ LastUsedUpdateFails
  \/ Tick

SpecAuth == InitAuth /\ [][NextAuth]_vars

\* two calls of validateApiKey in flight at once: each await of lines 38 and 57
\* yields to the event loop, so the steps of the two calls interleave
ConcurrentCalls == {1, 2}

InitRace ==
  /\ notebooks = <<>>
  /\ ResolverInit
  /\ apiKeys \in KeyTables
  /\ now = 0
  /\ keyCache = <<>>
  /\ calls = [c \in ConcurrentCalls |-> IdleCall]
  /\ lastUsedUpdates = {}
  /\ lastUsedAt = [k \in {apiKeys[i].id : i \in 1..Len(apiKeys)} |-> NullTime]
  /\ lastVerifiedAt = [k \in ApiKeyInputs |-> NullTime]
  /\ ToolInit
  /\ PureInit
  /\ DatabaseInit

\* the raw key that the concurrent requests present
RaceKey == "rawA"

RaceStart(c) == ValidateStart(c) /\ calls'[c].apiKey = RaceKey

NextRace ==
  \/ \E c \in DOMAIN calls : RaceStart(c)
  \/ \E c \in DOMAIN calls : ValidateLookup(c)
  \/ \E c \in DOMAIN calls : ValidateLookupFails(c)
  \/ \E c \in DOMAIN calls : ValidateCompare(c)
  \/ \E c \in DOMAIN calls : ValidateCompareFails(c)
  \/ \E c \in DOMAIN calls : ValidateReturn(c)
  \/ LastUsedUpdateSucceeds
  \/ LastUsedUpdateFails
  \/ Tick

SpecRace == InitRace /\ [][NextRace]_vars

(***************************************************************************)
(* The pure functions of lib/mcp-auth and of the tool handlers: the scope  *)
(* check and the two builders of Prisma where-clauses.  An object is a     *)
(* function whose domain is the set of the properties it has; a property   *)
(* that is not there reads as undefined.                                   *)
(***************************************************************************)
\* variant of hasRequiredScope in which admin implies nothing
hasRequiredScopeLiteral(authContext, requiredScope) ==
  IF authContext.authType = "api-key" /\ "scopes" \in DOMAIN authContext
  THEN requiredScope \in authContext.scopes
  ELSE FALSE

hasRequiredScope(authContext, requiredScope) ==
  IF authContext.authType = "api-key" /\ "scopes" \in DOMAIN authContext
  THEN requiredScope \in authContext.scopes \/ "admin" \in authContext.scopes
  ELSE FALSE

\* the copy of the check in the tool handlers of the API client
toolsHasRequiredScope(authContext, requiredScope) ==
  requiredScope \in authContext.scopes \/ "admin" \in authContext.scopes

Put(object, key, value) == (key :> value) @@ object

\* new Date(text): an ISO date gives its instant, any other text Invalid Date
IsoDates ==
  <<<<"2","0","2","4","-","0","1","-","0","1">>,
    <<"2","0","2","4","-","0","6","-","3","0">>>>

NotADate == <<"s","o","o","n">>

NewDate(text) ==
  IF \E i \in DOMAIN IsoDates : IsoDates[i] = text
  THEN [valid |-> TRUE, day |-> CHOOSE i \in DOMAIN IsoDates : IsoDates[i] = text]
  ELSE [valid |-> FALSE, day |-> 0]

\* a property that is there and is not the empty string
Truthy(params, key) ==
  key \in DOMAIN params /\ params[key] # <<>>

\* variant of buildNoteSearchFilters in which a search text replaces the clause
buildNoteSearchFiltersSearchOnly(params) ==
  IF Truthy(params, "search")
  THEN "OR" :> <<[field |-> "content", contains |-> params.search, mode |-> "insensitive"],
                 [field |-> "noteTitle", contains |-> params.search, mode |-> "insensitive"]>>
  ELSE "userId" :> params.userId

\* variant of buildNoteSearchFilters in which the id set comes before the single id
buildNoteSearchFiltersSetFirst(params) ==
  LET where == "userId" :> params.userId
      withSearch ==
        IF Truthy(params, "search")
        THEN Put(where, "OR",
               <<[field |-> "content", contains |-> params.search, mode |-> "insensitive"],
                 [field |-> "noteTitle", contains |-> params.search, mode |-> "insensitive"]>>)
        ELSE where
      withDomain ==
        IF Truthy(params, "domain")
        THEN Put(withSearch, "pageUrl", [contains |-> params.domain])
        ELSE withSearch
      withNotebook ==
        IF "notebookIds" \in DOMAIN params /\ Cardinality(params.notebookIds) > 0
        THEN Put(withDomain, "notebookId", [in |-> params.notebookIds])
        ELSE IF Truthy(params, "notebookId")
             THEN Put(withDomain, "notebookId", [equals |-> params.notebookId])
             ELSE withDomain
      createdAt ==
        [b \in {k \in {"gte", "lte"} :
                  Truthy(params, IF k = "gte" THEN "startDate" ELSE "endDate")} |->
           NewDate(params[IF b = "gte" THEN "startDate" ELSE "endDate"])]
  IN IF Truthy(params, "startDate") \/ Truthy(params, "endDate")
     THEN Put(withNotebook, "createdAt", createdAt)
     ELSE withNotebook

\* variant of buildNoteSearchFilters that bounds the date only when both dates are given
buildNoteSearchFiltersBothDates(params) ==
  LET where == "userId" :> params.userId
      withSearch ==
        IF Truthy(params, "search")
        THEN Put(where, "OR",
               <<[field |-> "content", contains |-> params.search, mode |-> "insensitive"],
                 [field |-> "noteTitle", contains |-> params.search, mode |-> "insensitive"]>>)
        ELSE where
      withDomain ==
        IF Truthy(params, "domain")
        THEN Put(withSearch, "pageUrl", [contains |-> params.domain])
        ELSE withSearch
      withNotebook ==
        IF Truthy(params, "notebookId")
        THEN Put(withDomain, "notebookId", [equals |-> params.notebookId])
        ELSE IF "notebookIds" \in DOMAIN params /\ Cardinality(params.notebookIds) > 0
             THEN Put(withDomain, "notebookId", [in |-> params.notebookIds])
             ELSE withDomain
      createdAt ==
        [b \in {k \in {"gte", "lte"} :
                  Truthy(params, IF k = "gte" THEN "startDate" ELSE "endDate")} |->
           NewDate(params[IF b = "gte" THEN "startDate" ELSE "endDate"])]
  IN IF Truthy(params, "startDate") /\ Truthy(params, "endDate")
     THEN Put(withNotebook, "createdAt", createdAt)
     ELSE withNotebook

buildNoteSearchFilters(params) ==
  LET where == "userId" :> params.userId
      withSearch ==
        IF Truthy(params, "search")
        THEN Put(where, "OR",
               <<[field |-> "content", contains |-> params.search, mode |-> "insensitive"],
                 [field |-> "noteTitle", contains |-> params.search, mode |-> "insensitive"]>>)
        ELSE where
      withDomain ==
        IF Truthy(params, "domain")
        THEN Put(withSearch, "pageUrl", [contains |-> params.domain])
        ELSE withSearch
      withNotebook ==
        IF Truthy(params, "notebookId")
        THEN Put(withDomain, "notebookId", [equals |-> params.notebookId])
        ELSE IF "notebookIds" \in DOMAIN params /\ Cardinality(params.notebookIds) > 0
             THEN Put(withDomain, "notebookId", [in |-> params.notebookIds])
             ELSE withDomain
      createdAt ==
        [b \in {k \in {"gte", "lte"} :
                  Truthy(params, IF k = "gte" THEN "startDate" ELSE "endDate")} |->
           NewDate(params[IF b = "gte" THEN "startDate" ELSE "endDate"])]
  IN IF Truthy(params, "startDate") \/ Truthy(params, "endDate")
     THEN Put(withNotebook, "createdAt", createdAt)
     ELSE withNotebook

buildNotebookSearchFilters(params) ==
  LET where == "userId" :> params.userId
  IN IF Truthy(params, "search")
     THEN Put(where, "OR",
            <<[field |-> "name", contains |-> params.search, mode |-> "insensitive"],
              [field |-> "description", contains |-> params.search, mode |-> "insensitive"]>>)
     ELSE where

\* the inputs of the builders: every optional property absent, empty or set
Restrict(object, keys) == [k \in keys |-> object[k]]

NoteFilterOptions ==
  {"search", "domain", "startDate", "endDate", "notebookId", "notebookIds"}

NoteFilterParams ==
  {Restrict(full, {"userId"} \cup given) :
     full \in [userId : Tenants, search : {<<>>, QryArch},
               domain : {<<>>, <<"x", ".", "i", "o">>},
               startDate : {<<>>, IsoDates[1], NotADate},
               endDate : {<<>>, IsoDates[2], NotADate},
               notebookId : {<<>>, NotebookId(1)},
               notebookIds : {{}, {NotebookId(1), NotebookId(2)}}],
     given \in SUBSET NoteFilterOptions}

NotebookFilterParams ==
  {Restrict(full, {"userId"} \cup given) :
     full \in [userId : Tenants, search : {<<>>, QryArch}],
     given \in SUBSET {"search"}}

\* each run applies one function to one choice of arguments
NothingApplied == scopeCall = NoScopeCall /\ filterCall = NoFilterCall

CheckScope ==
  /\ NothingApplied
  /\ \E authContext \in AuthContexts, requiredScope \in Scopes :
       scopeCall' = [impl |-> "mcp-auth", authContext |-> authContext,
                     requiredScope |-> requiredScope,
                     result |-> hasRequiredScope(authContext, requiredScope)]
  /\ filterCall' = NoFilterCall
  /\ UNCHANGED <<notebooks, resolverVars, authVars, toolVars, dbReachable, normCall, limitCall>>

CheckScopeTools ==
  /\ NothingApplied
  /\ \E authContext \in AuthContexts, requiredScope \in Scopes :
       scopeCall' = [impl |-> "tools", authContext |-> authContext,
                     requiredScope |-> requiredScope,
                     result |-> toolsHasRequiredScope(authContext, requiredScope)]
  /\ filterCall' = NoFilterCall
  /\ UNCHANGED <<notebooks, resolverVars, authVars, toolVars, dbReachable, normCall, limitCall>>

BuildNoteFilter ==
  /\ NothingApplied
  /\ \E params \in NoteFilterParams :
       filterCall' = [builder |-> "note", params |-> params,
                      where |-> buildNoteSearchFilters(params)]
  /\ scopeCall' = NoScopeCall
  /\ UNCHANGED <<notebooks, resolverVars, authVars, toolVars, dbReachable, normCall, limitCall>>

BuildNotebookFilter ==
  /\ NothingApplied
  /\ \E params \in NotebookFilterParams :
       filterCall' = [builder |-> "notebook", params |-> params,
                      where |-> buildNotebookSearchFilters(params)]
  /\ scopeCall' = NoScopeCall
  /\ UNCHANGED <<notebooks, resolverVars, authVars, toolVars, dbReachable, normCall, limitCall>>

InitPure ==
  /\ notebooks = <<>>
  /\ ResolverInit
  /\ apiKeys = <<>>
  /\ AuthInit
  /\ ToolInit
  /\ PureInit
  /\ DatabaseInit

NextPure ==
  \/ CheckScope
  \/ CheckScopeTools
  \/ BuildNoteFilter
  \/ BuildNotebookFilter

SpecPure == InitPure /\ [][NextPure]_vars

(***************************************************************************)
(* normalizeForSearch applied to every text of up to MaxTextLen characters *)
(* over an upper-case letter, a digit, the underscore, two kinds of        *)
(* whitespace and a punctuation mark; the result is normalized once more.  *)
(***************************************************************************)
TextAlphabet == {"A", "7", "_", " ", "\t", "!"}
Texts == UNION {[1..n -> TextAlphabet] : n \in 0..MaxTextLen}

ApplyNormalize ==
  /\ normCall = NoNormCall
  /\ \E text \in Texts :
       normCall' = [applied |-> TRUE, text |-> text,
                    once |-> normalizeForSearch(text),
                    twice |-> normalizeForSearch(normalizeForSearch(text))]
  /\ UNCHANGED <<notebooks, resolverVars, authVars, toolVars, dbReachable, scopeCall, filterCall, limitCall>>

NextNormalize == ApplyNormalize

SpecNormalize == InitPure /\ [][NextNormalize]_vars

(***************************************************************************)
(* The result limit of search_notes, search_notebooks, notes://list and    *)
(* notebooks://list.  A tool takes the limit as a number of its arguments, *)
(* a resource as the text of the limit parameter of its URI.               *)
(***************************************************************************)
MinLimit == 1
MaxLimit == 100
DefaultLimit == 20

MathMax(a, b) == IF a.nan \/ b.nan THEN NaN ELSE IF a.n >= b.n THEN a ELSE b
MathMin(a, b) == IF a.nan \/ b.nan THEN NaN ELSE IF a.n <= b.n THEN a ELSE b

RECURSIVE TrimStart(_)
TrimStart(s) ==
  IF s # <<>> /\ IsWhitespace(Head(s)) THEN TrimStart(Tail(s)) ELSE s

RECURSIVE DigitPrefix(_)
DigitPrefix(s) ==
  IF s # <<>> /\ Head(s) \in Range(DigitChars)
  THEN <<Head(s)>> \o DigitPrefix(Tail(s))
  ELSE <<>>

DigitValue(c) == (CHOOSE i \in DOMAIN DigitChars : DigitChars[i] = c) - 1

RECURSIVE DecimalValue(_)
DecimalValue(digits) ==
  IF digits = <<>> THEN 0
  ELSE 10 * DecimalValue(SubSeq(digits, 1, Len(digits) - 1)) + DigitValue(digits[Len(digits)])

\* parseInt(text): leading whitespace, an optional minus sign, then the
\* longest run of decimal digits; NaN when there is no digit
parseInt(text) ==
  LET t == TrimStart(text)
      negative == t # <<>> /\ Head(t) = "-"
      digits == DigitPrefix(IF negative THEN Tail(t) ELSE t)
  IN IF digits = <<>> THEN NaN
     ELSE Num(IF negative THEN 0 - DecimalValue(digits) ELSE DecimalValue(digits))

\* Math.min(100, Math.max(1, limit || 20)); 0, NaN and undefined are falsy
toolLimit(given, limit) ==
  MathMin(Num(MaxLimit),
          MathMax(Num(MinLimit),
                  IF given /\ ~limit.nan /\ limit.n # 0 THEN limit ELSE Num(DefaultLimit)))

\* Math.min(100, Math.max(1, parseInt(searchParams.get('limit') || '20')));
\* get gives null without the parameter, and null and '' are falsy
resourceLimit(given, text) ==
  MathMin(Num(MaxLimit),
          MathMax(Num(MinLimit),
                  parseInt(IF given /\ text # <<>> THEN text ELSE <<"2", "0">>)))

ToolLimits == {Num(n) : n \in (0 - 2)..(MaxLimit + 2)}
LimitTexts == UNION {[1..n -> {"0", "1", "9", "-", "a", " "}] : n \in 0..3}

ToolLimit ==
  /\ limitCall = NoLimitCall
  /\ \E op \in {"search_notes", "search_notebooks"}, given \in BOOLEAN, limit \in ToolLimits :
       /\ ~given => limit = Num(0)
       /\ limitCall' = [op |-> op, given |-> given,
                        input |-> IF given THEN <<limit>> ELSE <<>>,
                        limit |-> toolLimit(given, limit)]
  /\ UNCHANGED <<notebooks, resolverVars, authVars, toolVars, dbReachable, scopeCall, filterCall, normCall>>

ResourceLimit ==
  /\ limitCall = NoLimitCall
  /\ \E op \in {"notes://list", "notebooks://list"}, given \in BOOLEAN, text \in LimitTexts :
       /\ ~given => text = <<>>
       /\ limitCall' = [op |-> op, given |-> given, input |-> text,
                        limit |-> resourceLimit(given, text)]
  /\ UNCHANGED <<notebooks, resolverVars, authVars, toolVars, dbReachable, scopeCall, filterCall, normCall>>

NextLimits ==
  \/ ToolLimit
  \/ ResourceLimit

SpecLimits == InitPure /\ [][NextLimits]_vars

(***************************************************************************)
(* The request handlers of the server that call the functions above: the   *)
(* notes://list resource and the tools search_notes, create_note,          *)
(* search_notebooks, delete_note and delete_notebook.  A handler runs from *)
(* its scope check to its response in one step; resp keeps the request and *)
(* the response until the response is sent.                                *)
(***************************************************************************)
NoteId(i) == <<"n", DigitChars[i + 1]>>
NoteIds == {NoteId(1), NoteId(2)}

ToolNotebookRecords ==
  [userId : Tenants, name : {StrResearch}, description : NotebookDescriptions]
ToolNotebookStores == UNION {[ids -> ToolNotebookRecords] : ids \in SUBSET StoredIds}

StoredContent == <<"x">>

\* a note is in no notebook or in a notebook of its owner
NoteStores(store) ==
  {n \in UNION {[ids -> [userId : Tenants, notebookId : {NullText} \cup DOMAIN store,
                          content : {StoredContent}]] :
                  ids \in SUBSET NoteIds} :
     \A id \in DOMAIN n :
       n[id].notebookId # NullText => store[n[id].notebookId].userId = n[id].userId}

\* the contexts authenticateRequest returns for the keys of the callers
ToolContexts ==
  {a \in AuthContexts : a.scopes \in {{"read"}, {"write"}, {"admin"}}}

ToolQueries == {StrResearch, QryResarch}
NotebookArgs == {<<>>} \cup {"notebook" :> q : q \in ToolQueries \cup {<<>>}}
DeleteArgs(ids) ==
  {Restrict(full, given) :
     full \in [id : ids \cup {<<>>}, confirm : BOOLEAN],
     given \in SUBSET {"id", "confirm"}}

\* String.prototype.trim of an optional argument
Trimmed(args, key) == IF key \in DOMAIN args THEN Trim(args[key]) ELSE <<>>

\* prisma.note.findMany({ where }) for the clauses the handlers build
NoteMatches(note, where) ==
  /\ note.userId = where.userId
  /\ "notebookId" \in DOMAIN where
       => IF "equals" \in DOMAIN where.notebookId
          THEN note.notebookId = where.notebookId.equals
          ELSE note.notebookId \in where.notebookId["in"]

FindNotes(where) == {id \in DOMAIN notes : NoteMatches(notes[id], where)}

\* orderBy name asc of the substring search; rows of equal name and the rows
\* of the unordered fallback query come in any order
NameOrder == <<StrProjectAlpha, StrResearch, StrResearchArchive>>
NameRank(name) == CHOOSE i \in DOMAIN NameOrder : NameOrder[i] = name

FirstOf(userId, q) ==
  LET ids == resolveNotebook(userId, q)
      ordered == FindNotebooksContaining(userId, q) # {}
  IN IF ordered
     THEN {id \in ids : \A o \in ids :
             NameRank(notebooks[id].name) <= NameRank(notebooks[o].name)}
     ELSE ids

Response(op, authContext, args, outcome, message, noteIds) ==
  [op |-> op, authContext |-> authContext, args |-> args, outcome |-> outcome,
   message |-> message, noteIds |-> noteIds]

Denied(op, authContext, args) ==
  Response(op, authContext, args, "error", "insufficient-permissions", {})

\* part_001 175-262: the notes://list resource
ReadNotesList ==
  /\ resp = NoResponse
  /\ \E authContext \in ToolContexts, args \in NotebookArgs :
       LET notebookQuery == Trimmed(args, "notebook")
           params ==
             IF notebookQuery # <<>>
             THEN Put("userId" :> authContext.userId, "notebookIds",
                      resolveNotebook(authContext.userId, notebookQuery))
             ELSE "userId" :> authContext.userId
       IN resp' =
            IF ~hasRequiredScope(authContext, "read")
            THEN Denied("notes://list", authContext, args)
            ELSE Response("notes://list", authContext, args, "ok", "notes",
                          FindNotes(buildNoteSearchFilters(params)))
  /\ UNCHANGED <<notebooks, notes, resolverVars, authVars, pureVars, dbReachable>>

\* part_001 1114-1200: the search_notes tool
SearchNotes ==
  /\ resp = NoResponse
  /\ \E authContext \in ToolContexts, args \in NotebookArgs :
       LET notebookQuery == Trimmed(args, "notebook")
           notebookIds == resolveNotebook(authContext.userId, notebookQuery)
           params ==
             IF notebookQuery # <<>>
             THEN Put("userId" :> authContext.userId, "notebookIds", notebookIds)
             ELSE "userId" :> authContext.userId
       IN resp' =
            IF ~hasRequiredScope(authContext, "read")
            THEN Denied("search_notes", authContext, args)
            ELSE IF notebookQuery # <<>> /\ notebookIds = {}
            THEN Response("search_notes", authContext, args, "ok",
                          "no-notebook-found", {})
            ELSE Response("search_notes", authContext, args, "ok", "notes",
                          FindNotes(buildNoteSearchFilters(params)))
  /\ UNCHANGED <<notebooks, notes, resolverVars, authVars, pureVars, dbReachable>>

\* part_001 906-975: the create_note tool, with a content that is not blank;
\* the model creates a note while an id of NoteIds is free
CreateNote ==
  /\ resp = NoResponse
  /\ \E authContext \in ToolContexts, args \in NotebookArgs :
       LET notebookQuery == Trimmed(args, "notebook")
           notebookIds == resolveNotebook(authContext.userId, notebookQuery)
       IN IF ~hasRequiredScope(authContext, "write")
          THEN /\ resp' = Denied("create_note", authContext, args)
               /\ notes' = notes
          ELSE IF notebookQuery # <<>> /\ notebookIds = {}
          THEN /\ resp' = Response("create_note", authContext, args, "error",
                                   "no-notebook-found", {})
               /\ notes' = notes
          ELSE /\ NoteIds \ DOMAIN notes # {}
               /\ \E id \in NoteIds \ DOMAIN notes,
                     notebookId \in IF notebookQuery # <<>>
                                    THEN FirstOf(authContext.userId, notebookQuery)
                                    ELSE {NullText} :
                    /\ notes' = Put(notes, id, [userId |-> authContext.userId,
                                                notebookId |-> notebookId,
                                                content |-> StoredContent])
                    /\ resp' = Response("create_note", authContext, args, "ok",
                                        "created", {id})
  /\ UNCHANGED <<notebooks, resolverVars, authVars, pureVars, dbReachable>>

\* part_001 1205-1260: the search_notebooks tool, up to its scope check
SearchNotebooks ==
  /\ resp = NoResponse
  /\ \E authContext \in ToolContexts :
       resp' =
         IF ~hasRequiredScope(authContext, "read")
         THEN Denied("search_notebooks", authContext, <<>>)
         ELSE Response("search_notebooks", authContext, <<>>, "ok", "notebooks", {})
  /\ UNCHANGED <<notebooks, notes, resolverVars, authVars, pureVars, dbReachable>>

\* variant of DeleteNote that deletes without looking at confirm
DeleteNoteUnconfirmed ==
  /\ resp = NoResponse
  /\ \E authContext \in ToolContexts, args \in DeleteArgs(NoteIds) :
       LET Failed(message) ==
             /\ resp' = Response("delete_note", authContext, args, "error", message, {})
             /\ notes' = notes
       IN IF ~hasRequiredScope(authContext, "admin")
          THEN /\ resp' = Denied("delete_note", authContext, args)
               /\ notes' = notes
          ELSE IF ~Truthy(args, "id") THEN Failed("id-required")
          ELSE IF ~(args.id \in DOMAIN notes /\ notes[args.id].userId = authContext.userId)
          THEN Failed("not-found")
          ELSE /\ notes' = Restrict(notes, DOMAIN notes \ {args.id})
               /\ resp' = Response("delete_note", authContext, args, "ok", "deleted",
                                   {args.id})
  /\ UNCHANGED <<notebooks, resolverVars, authVars, pureVars, dbReachable>>

\* part_001 1054-1112: the delete_note tool
DeleteNote ==
  /\ resp = NoResponse
  /\ \E authContext \in ToolContexts, args \in DeleteArgs(NoteIds) :
       LET Failed(message) ==
             /\ resp' = Response("delete_note", authContext, args, "error", message, {})
             /\ notes' = notes
       IN IF ~hasRequiredScope(authContext, "admin")
          THEN /\ resp' = Denied("delete_note", authContext, args)
               /\ notes' = notes
          ELSE IF ~Truthy(args, "id") THEN Failed("id-required")
          ELSE IF ~("confirm" \in DOMAIN args /\ args.confirm)
          THEN Failed("confirmation-required")
          ELSE IF ~(args.id \in DOMAIN notes /\ notes[args.id].userId = authContext.userId)
          THEN Failed("not-found")
          ELSE /\ notes' = Restrict(notes, DOMAIN notes \ {args.id})
               /\ resp' = Response("delete_note", authContext, args, "ok", "deleted",
                                   {args.id})
  /\ UNCHANGED <<notebooks, resolverVars, authVars, pureVars, dbReachable>>

\* part_001 1377-1441: the delete_notebook tool; onDelete: SetNull unassigns
\* the notes of the deleted notebook
DeleteNotebook ==
  /\ resp = NoResponse
  /\ \E authContext \in ToolContexts, args \in DeleteArgs(StoredIds) :
       LET Failed(message) ==
             /\ resp' = Response("delete_notebook", authContext, args, "error",
                                 message, {})
             /\ UNCHANGED <<notebooks, notes>>
       IN IF ~hasRequiredScope(authContext, "admin")
          THEN /\ resp' = Denied("delete_notebook", authContext, args)
               /\ UNCHANGED <<notebooks, notes>>
          ELSE IF ~Truthy(args, "id") THEN Failed("id-required")
          ELSE IF ~("confirm" \in DOMAIN args /\ args.confirm)
          THEN Failed("confirmation-required")
          ELSE IF ~(/\ args.id \in DOMAIN notebooks
                    /\ notebooks[args.id].userId = authContext.userId)
          THEN Failed("not-found")
          ELSE /\ notebooks' = Restrict(notebooks, DOMAIN notebooks \ {args.id})
               /\ notes' = [n \in DOMAIN notes |->
                              IF notes[n].notebookId = args.id
                              THEN [notes[n] EXCEPT !.notebookId = NullText]
                              ELSE notes[n]]
               /\ resp' = Response("delete_notebook", authContext, args, "ok",
                                   "deleted", {})
  /\ UNCHANGED <<resolverVars, authVars, pureVars, dbReachable>>

\* the response goes to the client and the server takes the next request
Respond ==
  /\ resp # NoResponse
  /\ resp' = NoResponse
  /\ UNCHANGED <<notebooks, notes, resolverVars, authVars, pureVars, dbReachable>>

InitTools ==
  /\ notebooks \in ToolNotebookStores
  /\ notes \in NoteStores(notebooks)
  /\ resp = NoResponse
  /\ ResolverInit
  /\ apiKeys = <<>>
  /\ AuthInit
  /\ PureInit
  /\ DatabaseInit

NextTools ==
  \/ ReadNotesList
  \/ SearchNotes
  \/ CreateNote
  \/ SearchNotebooks
  \/ DeleteNote
  \/ DeleteNotebook
  \/ Respond

SpecTools == InitTools /\ [][NextTools]_vars

(***************************************************************************)
(* The update tools, with the delete tools above: the handlers that change *)
(* or remove a stored record named by the id of the request.               *)
(***************************************************************************)
UpdateNoteArgs ==
  {Restrict(full, given) :
     full \in [id : NoteIds \cup {<<>>}, content : {<<" ", "y">>}],
     given \in SUBSET {"id", "content"}}

UpdateNotebookArgs ==
  {Restrict(full, given) :
     full \in [id : StoredIds \cup {<<>>}, name : {StrResearchArchive}],
     given \in SUBSET {"id", "name"}}

\* variant of UpdateNote whose lookup of the note leaves out the userId
UpdateNoteAnyOwner ==
  /\ resp = NoResponse
  /\ \E authContext \in ToolContexts, args \in UpdateNoteArgs :
       LET Failed(message) ==
             /\ resp' = Response("update_note", authContext, args, "error", message, {})
             /\ notes' = notes
       IN IF ~hasRequiredScope(authContext, "write")
          THEN /\ resp' = Denied("update_note", authContext, args)
               /\ notes' = notes
          ELSE IF ~Truthy(args, "id") THEN Failed("id-required")
          ELSE IF ~(args.id \in DOMAIN notes)
          THEN Failed("not-found")
          ELSE IF "content" \notin DOMAIN args THEN Failed("no-field")
          ELSE /\ notes' = [notes EXCEPT ![args.id].content = Trim(args.content)]
               /\ resp' = Response("update_note", authContext, args, "ok", "updated",
                                   {args.id})
  /\ UNCHANGED <<notebooks, resolverVars, authVars, pureVars, dbReachable>>

\* part_001 985-1052: the update_note tool
UpdateNote ==
  /\ resp = NoResponse
  /\ \E authContext \in ToolContexts, args \in UpdateNoteArgs :
       LET Failed(message) ==
             /\ resp' = Response("update_note", authContext, args, "error", message, {})
             /\ notes' = notes
       IN IF ~hasRequiredScope(authContext, "write")
          THEN /\ resp' = Denied("update_note", authContext, args)
               /\ notes' = notes
          ELSE IF ~Truthy(args, "id") THEN Failed("id-required")
          ELSE IF ~(args.id \in DOMAIN notes /\ notes[args.id].userId = authContext.userId)
          THEN Failed("not-found")
          ELSE IF "content" \notin DOMAIN args THEN Failed("no-field")
          ELSE /\ notes' = [notes EXCEPT ![args.id].content = Trim(args.content)]
               /\ resp' = Response("update_note", authContext, args, "ok", "updated",
                                   {args.id})
  /\ UNCHANGED <<notebooks, resolverVars, authVars, pureVars, dbReachable>>

\* part_001 1310-1376: the update_notebook tool
UpdateNotebook ==
  /\ resp = NoResponse
  /\ \E authContext \in ToolContexts, args \in UpdateNotebookArgs :
       LET Failed(message) ==
             /\ resp' = Response("update_notebook", authContext, args, "error",
                                 message, {})
             /\ notebooks' = notebooks
       IN IF ~hasRequiredScope(authContext, "write")
          THEN /\ resp' = Denied("update_notebook", authContext, args)
               /\ notebooks' = notebooks
          ELSE IF ~Truthy(args, "id") THEN Failed("id-required")
          ELSE IF ~(/\ args.id \in DOMAIN notebooks
                    /\ notebooks[args.id].userId = authContext.userId)
          THEN Failed("not-found")
          ELSE IF "name" \notin DOMAIN args THEN Failed("no-field")
          ELSE /\ notebooks' = [notebooks EXCEPT ![args.id].name = Trim(args.name)]
               /\ resp' = Response("update_notebook", authContext, args, "ok",
                                   "updated", {})
  /\ UNCHANGED <<notes, resolverVars, authVars, pureVars, dbReachable>>

NextRecords ==
  \/ UpdateNote
  \/ DeleteNote
  \/ UpdateNotebook
  \/ DeleteNotebook
  \/ Respond

\* these handlers never read a description: the notebooks start without one
InitRecords ==
  /\ InitTools
  /\ \A id \in DOMAIN notebooks : notebooks[id].description = NullText

SpecRecords == InitRecords /\ [][NextRecords]_vars

(***************************************************************************)
(* The system://health resource (part_001 175-184, 536-588, 695-705).      *)
(* A read first authenticates with the key of the process, which queries   *)
(* the key table unless the cache answers, and only then probes the        *)
(* database with SELECT 1 inside its own try block.                        *)
(***************************************************************************)
HealthUri == "system://health"

\* part_001 78: process.env.NEEMEE_API_KEY, the one key this server presents
ServerApiKey == "rawA"

\* part_001 96-100: the context authenticateRequest hands to the handler
RequestContext(result) ==
  [userId |-> result.userId, authType |-> "api-key", scopes |-> result.scopes]

\* the database goes away, or comes back
DatabaseFails ==
  /\ dbReachable
  /\ dbReachable' = FALSE
  /\ UNCHANGED <<notebooks, resolverVars, authVars, toolVars, pureVars>>

DatabaseRecovers ==
  /\ ~dbReachable
  /\ dbReachable' = TRUE
  /\ UNCHANGED <<notebooks, resolverVars, authVars, toolVars, pureVars>>

\* part_001 177: the handler calls authenticateRequest, which calls
\* getMcpAuthContext and so validateApiKey with the key of the process
HealthAuthenticate(c) ==
  /\ resp = NoResponse
  /\ ValidateStart(c)
  /\ calls'[c].apiKey = ServerApiKey

\* findMany reaches the database
HealthLookup(c) == dbReachable /\ ValidateLookup(c)

\* findMany rejects because the database is away
HealthLookupFails(c) == ~dbReachable /\ ValidateLookupFails(c)

\* the lastUsedAt update settles as the database allows
HealthLastUsedUpdate ==
  IF dbReachable THEN LastUsedUpdateSucceeds ELSE LastUsedUpdateFails

\* part_001 88-93: a null context is the McpError 'Invalid API key';
\* 179-184: the read scope; 538-586: SELECT 1 and the health document, whose
\* status is 'unhealthy' and database status 'disconnected' when it rejects
ReadHealth(c) ==
  /\ calls[c].pc = "done"
  /\ resp = NoResponse
  /\ LET result == calls[c].result
         authContext == RequestContext(result)
         Answer(outcome, message) ==
           resp' = Response(HealthUri, authContext, <<>>, outcome, message, {})
     IN IF result = NullContext THEN Answer("error", "invalid-api-key")
        ELSE IF ~hasRequiredScope(authContext, "read")
        THEN resp' = Denied(HealthUri, authContext, <<>>)
        ELSE IF dbReachable THEN Answer("ok", "healthy")
        ELSE Answer("ok", "unhealthy")
  /\ calls' = [calls EXCEPT ![c] = IdleCall]
  /\ UNCHANGED <<notebooks, notes, resolverVars, pureVars, dbReachable, now, apiKeys,
                 keyCache, lastUsedUpdates, lastUsedAt, lastVerifiedAt>>

InitHealth ==
  /\ notebooks = <<>>
  /\ ResolverInit
  /\ apiKeys \in KeyTables
  /\ AuthInit
  /\ ToolInit
  /\ PureInit
  /\ DatabaseInit

NextHealth ==
  \/ \E c \in DOMAIN calls : HealthAuthenticate(c)
  \/ \E c \in DOMAIN calls : HealthLookup(c)
  \/ \E c \in DOMAIN calls : HealthLookupFails(c)
  \/ \E c \in DOMAIN calls : ValidateCompare(c)
  \/ \E c \in DOMAIN calls : ReadHealth(c)
  \/ Respond
  \/ HealthLastUsedUpdate
  \/ DatabaseFails
  \/ DatabaseRecovers
  \/ Tick

SpecHealth == InitHealth /\ [][NextHealth]_vars




(***************************************************************************)
(* Vocabulary of the properties, stated on the data and not through the    *)
(* queries of the code.                                                    *)
(***************************************************************************)
OwnedBy(userId) == {id \in DOMAIN notebooks : notebooks[id].userId = userId}

SameIgnoringCase(a, b) ==
  /\ Len(a) = Len(b)
  /\ \A i \in 1..Len(a) : toLowerCaseChar(a[i]) = toLowerCaseChar(b[i])

OccursIgnoringCase(text, q) ==
  /\ text # NullText
  /\ \E i \in 0..(Len(text) - Len(q)) : SameIgnoringCase(SubSeq(text, i + 1, i + Len(q)), q)

\* the notebooks of the tenant named exactly as the query, up to letter case
NamedAs(userId, q) ==
  {id \in OwnedBy(userId) : SameIgnoringCase(notebooks[id].name, q)}

\* the notebooks of the tenant whose name or description contains the query
Containing(userId, q) ==
  {id \in OwnedBy(userId) :
     \/ OccursIgnoringCase(notebooks[id].name, q)
     \/ OccursIgnoringCase(notebooks[id].description, q)}

Ran(op) == \E i \in DOMAIN rOps : rOps[i] = op

ResolvedById == isCuidFormat(rQuery) /\ rQuery \in OwnedBy(rUser)

(***************************************************************************)
(* C1: a query in the id format that is not the id of a notebook of the    *)
(* tenant resolves to the empty set, and neither the substring search nor  *)
(* the fuzzy fallback is run on it.                                        *)
(***************************************************************************)
C1_IdFormatMissIsExclusive ==
  (rpc = "done" /\ isCuidFormat(rQuery) /\ rQuery \notin OwnedBy(rUser))
    => (rResult = {} /\ ~Ran("findMany") /\ ~Ran("findAll"))

(***************************************************************************)
(* C3: at every stage the rows and the returned ids are notebooks of the   *)
(* calling tenant; no id of another tenant's notebook is returned.         *)
(***************************************************************************)
C3_ResultsOwnedByTenant ==
  /\ rNotebooks \subseteq OwnedBy(rUser)
  /\ rResult \subseteq OwnedBy(rUser)

C3_Witness ==
  /\ rpc = "done"
  /\ rResult # {}
  /\ \E id \in DOMAIN notebooks :
       /\ notebooks[id].userId # rUser
       /\ OccursIgnoringCase(notebooks[id].name, rQuery)

(***************************************************************************)
(* C5: a query not in the id format that equals, up to letter case, the    *)
(* name of a notebook of the tenant resolves to exactly the notebooks of   *)
(* the tenant so named, and to none that merely contains the query.        *)
(***************************************************************************)
C5_ExactNameWins ==
  (rpc = "done" /\ ~isCuidFormat(rQuery) /\ NamedAs(rUser, rQuery) # {})
    => rResult = NamedAs(rUser, rQuery)

C5_Witness ==
  /\ rpc = "done"
  /\ rQuery = QryResearchLower
  /\ rResult = NamedAs(rUser, rQuery)
  /\ rResult # {}
  /\ Containing(rUser, rQuery) \ NamedAs(rUser, rQuery) # {}

(***************************************************************************)
(* C6: a query in the id format that is the id of a notebook of the tenant *)
(* resolves to that id alone, by the id lookup alone, whatever the other   *)
(* notebooks of the tenant contain.                                        *)
(***************************************************************************)
C6_ExactIdShortCircuits ==
  (rpc = "done" /\ ResolvedById)
    => (rResult = {rQuery} /\ rOps = <<"findFirst">>)

C6_Witness ==
  /\ rpc = "done"
  /\ ResolvedById
  /\ rResult = {rQuery}
  /\ Containing(rUser, rQuery) \ {rQuery} # {}

(***************************************************************************)
(* C7: the stages run in precedence order, and the scan of all notebooks   *)
(* of the fuzzy fallback runs only after a substring search that returned  *)
(* nothing; a call for which some notebook contains the query returns      *)
(* without that scan.                                                      *)
(***************************************************************************)
C7_FallbackOnlyAfterEmptySearch ==
  /\ rOps \in {<<>>, <<"findFirst">>, <<"findMany">>, <<"findFirst", "findMany">>,
               <<"findMany", "findAll">>, <<"findFirst", "findMany", "findAll">>}
  /\ (rpc = "findAll" \/ Ran("findAll"))
       => (Ran("findMany") /\ rNotebooks = {} /\ Containing(rUser, rQuery) = {})
  /\ (rpc = "done" /\ Containing(rUser, rQuery) # {}) => ~Ran("findAll")

C7_Witness ==
  /\ rpc = "done"
  /\ rOps = <<"findMany", "findAll">>
  /\ rResult # {}

(***************************************************************************)
(* C8: the fuzzy fallback returns only notebooks whose normalized name or  *)
(* description is in a substring relation with the normalized query, and   *)
(* nothing when no notebook is textually related to the query: with the    *)
(* notebooks "Research" and "Research Archive", without descriptions, the  *)
(* query "resarch" resolves to the empty set.                              *)
(***************************************************************************)
InSubstringRelation(a, b) == includes(a, b) \/ includes(b, a)

C8_FallbackReturnsOnlyRelated ==
  (rpc = "done" /\ Ran("findAll"))
    => /\ \A id \in rResult :
            \/ InSubstringRelation(normalizeForSearch(rQuery),
                                   normalizeForSearch(notebooks[id].name))
            \/ InSubstringRelation(normalizeForSearch(rQuery),
                 normalizeForSearch(DescriptionOrEmpty(notebooks[id].description)))
       /\ ( /\ rQuery = QryResarch
            /\ \A id \in OwnedBy(rUser) :
                 /\ notebooks[id].name \in {StrResearch, StrResearchArchive}
                 /\ notebooks[id].description = NullText )
          => rResult = {}

(***************************************************************************)
(* C9: with "Project Alpha!!" the only notebook of the tenant of that      *)
(* name, the query "project alpha" resolves to it.  As claimed: by the     *)
(* fuzzy fallback, the substring search having found nothing.  As amended: *)
(* by the substring search, the fallback not being reached.                *)
(***************************************************************************)
ProjectAlphaCase ==
  /\ rpc = "done"
  /\ rQuery = QryProjectAlpha
  /\ Cardinality({id \in OwnedBy(rUser) : notebooks[id].name = StrProjectAlpha}) = 1

TheProjectAlpha == {id \in OwnedBy(rUser) : notebooks[id].name = StrProjectAlpha}

C9_ResolvedByFallback ==
  ProjectAlphaCase
    => (rResult = TheProjectAlpha /\ rNotebooks = {} /\ Ran("findAll"))

C9_ResolvedBySubstringSearch ==
  ProjectAlphaCase
    => (rResult = TheProjectAlpha /\ rNotebooks = TheProjectAlpha
        /\ rOps = <<"findMany">>)

C9_Witness ==
  /\ ProjectAlphaCase
  /\ rResult = TheProjectAlpha
  /\ OwnedBy(rUser) \ TheProjectAlpha # {}

(***************************************************************************)
(* C10: when the id lookup does not resolve the query and no notebook of   *)
(* the tenant is named as the query, but some contain it, the call returns *)
(* exactly the notebooks of the tenant that contain it.  As claimed, the   *)
(* query "Arch" then returns "Research Archive" and not "Research"; as     *)
(* amended, it returns both, "Research" containing "arch" too.             *)
(***************************************************************************)
PartialMatchCase ==
  /\ rpc = "done"
  /\ ~ResolvedById
  /\ NamedAs(rUser, rQuery) = {}
  /\ Containing(rUser, rQuery) # {}

C10_PartialMatchesArchiveOnly ==
  /\ PartialMatchCase => rResult = Containing(rUser, rQuery)
  /\ (PartialMatchCase /\ rQuery = QryArch)
       => \A id \in rResult : notebooks[id].name = StrResearchArchive

C10_AllPartialMatchesReturned ==
  /\ PartialMatchCase => rResult = Containing(rUser, rQuery)
  /\ (PartialMatchCase /\ rQuery = QryArch)
       => rResult = {id \in OwnedBy(rUser) :
                       notebooks[id].name \in {StrResearch, StrResearchArchive}}

C10_Witness ==
  /\ PartialMatchCase
  /\ rQuery = QryArch
  /\ {notebooks[id].name : id \in rResult} = {StrResearch, StrResearchArchive}

(***************************************************************************)
(* C2: no call returns an authenticated context for a key record whose own *)
(* expiry had passed when the call was made, from the database or from the *)
(* cache.                                                                  *)
(***************************************************************************)
KeyRecordOf(keyId) == apiKeys[CHOOSE i \in 1..Len(apiKeys) : apiKeys[i].id = keyId]

C2_ExpiredKeyNeverAuthenticated ==
  \A c \in DOMAIN calls :
    (calls[c].pc = "done" /\ calls[c].result # NullContext)
      => \/ KeyRecordOf(calls[c].result.keyId).expiresAt = NullTime
         \/ KeyRecordOf(calls[c].result.keyId).expiresAt > calls[c].startedAt

(***************************************************************************)
(* C4: a call made less than 5 minutes after the latest successful         *)
(* verification of its raw key is answered from the cache, with no lookup  *)
(* and no hash verification; a call made at or after that instant ignores  *)
(* the entry, does one lookup and answers from it alone.  As claimed, such *)
(* a call verifies at least one hash; as amended, it verifies at least one *)
(* hash exactly when the lookup returned a key record.                     *)
(***************************************************************************)
WithinTtl(c) ==
  /\ calls[c].priorVerifiedAt # NullTime
  /\ calls[c].startedAt < calls[c].priorVerifiedAt + CacheTtlMs

Stale(c) ==
  /\ calls[c].priorVerifiedAt # NullTime
  /\ calls[c].startedAt >= calls[c].priorVerifiedAt + CacheTtlMs

AnswersFromLookup(c) ==
  \/ calls[c].result = NullContext
  \/ \E i \in 1..Len(calls[c].candidates) :
       /\ calls[c].candidates[i].keyHash = BcryptHash(calls[c].apiKey)
       /\ calls[c].result = ContextOf(calls[c].candidates[i])

C4_StaleCallAlwaysVerifies ==
  \A c \in DOMAIN calls :
    calls[c].pc = "done"
      => /\ WithinTtl(c)
              => (calls[c].hit /\ calls[c].lookups = 0 /\ calls[c].compares = 0)
         /\ Stale(c)
              => (~calls[c].hit /\ calls[c].lookups = 1 /\ calls[c].compares >= 1
                  /\ AnswersFromLookup(c))

C4_CacheUsedExactlyWhileFresh ==
  \A c \in DOMAIN calls :
    calls[c].pc = "done"
      => /\ WithinTtl(c)
              => (calls[c].hit /\ calls[c].lookups = 0 /\ calls[c].compares = 0)
         /\ Stale(c)
              => (~calls[c].hit /\ calls[c].lookups = 1
                  /\ (calls[c].compares >= 1 <=> calls[c].candidates # <<>>)
                  /\ AnswersFromLookup(c))

C4_Witness ==
  \E c \in DOMAIN calls :
    /\ calls[c].pc = "done"
    /\ calls[c].priorVerifiedAt # NullTime
    /\ calls[c].startedAt = calls[c].priorVerifiedAt + CacheTtlMs
    /\ ~calls[c].hit
    /\ calls[c].compares >= 1
    /\ calls[c].result # NullContext


(***************************************************************************)
(* C11: two queries that differ only in letter case resolve to the same    *)
(* ids for the same tenant.  As claimed: at every stage, the id-format     *)
(* test and the id lookup included.  As amended: for queries of which none *)
(* is in the id format; the id-format test and the id lookup tell letter   *)
(* case apart.                                                             *)
(***************************************************************************)
CaseVariants(q) == {v \in NotebookQueries : v # q /\ SameIgnoringCase(v, q)}

C11_CaseNeverSignificant ==
  rpc = "done"
    => /\ rResult = resolveNotebook(rUser, rQuery)
       /\ \A v \in CaseVariants(rQuery) : resolveNotebook(rUser, v) = rResult

C11_CaseInsignificantOutsideIdFormat ==
  rpc = "done"
    => /\ rResult = resolveNotebook(rUser, rQuery)
       /\ \A v \in CaseVariants(rQuery) :
            (~isCuidFormat(rQuery) /\ ~isCuidFormat(v))
              => resolveNotebook(rUser, v) = rResult

C11_Witness ==
  /\ rpc = "done"
  /\ rQuery = QryResearchCommaArchiveCaps
  /\ QryResearchCommaArchive \in CaseVariants(rQuery)
  /\ Ran("findAll")
  /\ rResult # {}
  /\ rResult # OwnedBy(rUser)


(***************************************************************************)
(* C13: when bcrypt.compare raises for one candidate, the call goes on     *)
(* with the candidates after it: if one of them verifies against the raw   *)
(* key, the call returns that candidate's context.                         *)
(***************************************************************************)
VerifyingAfter(c) ==
  {j \in (calls[c].next + 1)..Len(calls[c].candidates) :
     calls[c].candidates[j].keyHash = BcryptHash(calls[c].apiKey)}

C13_CompareErrorSkipsCandidate ==
  \A c \in DOMAIN calls :
    (calls[c].pc = "done" /\ calls[c].error = "compare" /\ VerifyingAfter(c) # {})
      => \E j \in VerifyingAfter(c) :
           calls[c].result = ContextOf(calls[c].candidates[j])

(***************************************************************************)
(* C14: a call never raises, and it returns the same null for a raw key    *)
(* that no record verifies, for a raw key whose records have all expired,  *)
(* and for a failure of the lookup.                                        *)
(***************************************************************************)
RecordsOf(apiKey) ==
  {i \in 1..Len(apiKeys) : apiKeys[i].keyHash = BcryptHash(apiKey)}

ExpiredAt(i, t) == apiKeys[i].expiresAt # NullTime /\ apiKeys[i].expiresAt <= t

C14_UniformNotAuthenticated ==
  \A c \in DOMAIN calls :
    /\ calls[c].pc \in {"idle", "lookup", "compare", "done"}
    /\ ( /\ calls[c].pc = "done"
         /\ \/ RecordsOf(calls[c].apiKey) = {}
            \/ \A i \in RecordsOf(calls[c].apiKey) : ExpiredAt(i, calls[c].startedAt)
            \/ calls[c].error = "lookup" )
       => calls[c].result = NullContext

(***************************************************************************)
(* C15: the last-used update is started and never awaited: the step that   *)
(* verifies a key starts the update and has the context ready at once,     *)
(* while the update is still pending; and the step in which the update     *)
(* succeeds or fails changes neither any call's result nor the cache.      *)
(***************************************************************************)
VerifiedIn(c) ==
  /\ calls[c].pc = "compare"
  /\ calls'[c].pc = "done"
  /\ calls'[c].result # NullContext

UpdateSettles == lastUsedUpdates' # lastUsedUpdates /\ lastUsedUpdates' \subseteq lastUsedUpdates

C15_LastUsedUpdateNotAwaited ==
  [][ /\ \A c \in DOMAIN calls :
           VerifiedIn(c)
             => [keyId |-> calls'[c].result.keyId, at |-> now] \in lastUsedUpdates'
      /\ UpdateSettles => (calls' = calls /\ keyCache' = keyCache) ]_vars

C15_Witness ==
  \E c \in DOMAIN calls :
    /\ calls[c].pc = "done"
    /\ calls[c].result # NullContext
    /\ ~calls[c].hit
    /\ lastUsedUpdates = {}
    /\ lastUsedAt[calls[c].result.keyId] = NullTime
    /\ calls[c].apiKey \in DOMAIN keyCache
    /\ keyCache[calls[c].apiKey].keyId = calls[c].result.keyId

(***************************************************************************)
(* C16: when calls for one raw key interleave, every cache entry holds the *)
(* user id, scopes and key id of a record whose hash verifies against the  *)
(* entry's raw key; and while the records of the raw key are all           *)
(* unexpired, every call that ended without a fault returns one and the    *)
(* same context, that of the first record that verifies, whether it was    *)
(* answered from the cache or after hash verifications of its own.         *)
(***************************************************************************)
EntryOf(i) ==
  [userId |-> apiKeys[i].userId, scopes |-> apiKeys[i].scopes, keyId |-> apiKeys[i].id]

CacheHoldsVerifiedRecords ==
  \A raw \in DOMAIN keyCache :
    \E i \in RecordsOf(raw) :
      [f \in {"userId", "scopes", "keyId"} |-> keyCache[raw][f]] = EntryOf(i)

ValidNow(raw) ==
  /\ RecordsOf(raw) # {}
  /\ \A i \in RecordsOf(raw) : ~ExpiredAt(i, now)

FirstVerifying(raw) == CHOOSE i \in RecordsOf(raw) : \A j \in RecordsOf(raw) : i <= j

Holds(scopes, required) == required \in scopes \/ "admin" \in scopes

C17_ScopeCheck ==
  scopeCall.impl # "none"
    => /\ scopeCall.result = Holds(scopeCall.authContext.scopes, scopeCall.requiredScope)
       /\ (scopeCall.authContext.scopes = {"admin"} /\ scopeCall.requiredScope = "write")
            => scopeCall.result
       /\ (scopeCall.authContext.scopes = {"read"} /\ scopeCall.requiredScope = "write")
            => ~scopeCall.result
       /\ (scopeCall.authContext.scopes = {"write"} /\ scopeCall.requiredScope = "admin")
            => ~scopeCall.result

C17_Witness ==
  /\ scopeCall.impl = "mcp-auth"
  /\ scopeCall.authContext.scopes = {"admin"}
  /\ scopeCall.requiredScope = "write"
  /\ scopeCall.result

(***************************************************************************)
(* C20: the where-clause of either builder has the userId of its params,   *)
(* whichever optional params are absent, empty or set; when all of them    *)
(* are absent the clause has nothing but the userId.                       *)
(***************************************************************************)
C20_TenantScopeAlwaysPresent ==
  filterCall.builder # "none"
    => /\ "userId" \in DOMAIN filterCall.where
       /\ filterCall.where.userId = filterCall.params.userId
       /\ DOMAIN filterCall.params = {"userId"}
            => DOMAIN filterCall.where = {"userId"}

C20_Witness ==
  /\ filterCall.builder = "note"
  /\ DOMAIN filterCall.params = {"userId"}
  /\ filterCall.where = "userId" :> filterCall.params.userId

(***************************************************************************)
(* C12: when notes://list, search_notes or create_note is given a notebook *)
(* reference for which resolveNotebook returns no id, the response carries *)
(* no note: none is returned and none is created.                          *)
(***************************************************************************)
ResolvedToNothing ==
  /\ resp.op \in {"notes://list", "search_notes", "create_note"}
  /\ resp.message # "insufficient-permissions"
  /\ Trimmed(resp.args, "notebook") # <<>>
  /\ resolveNotebook(resp.authContext.userId, Trimmed(resp.args, "notebook")) = {}

C12_ZeroResultYieldsNoNotes == ResolvedToNothing => resp.noteIds = {}

(***************************************************************************)
(* C18: a key whose scopes contain write is never refused a read           *)
(* operation (notes://list, search_notes, search_notebooks) for want of    *)
(* the read scope.                                                         *)
(***************************************************************************)
ReadOperations == {"notes://list", "search_notes", "search_notebooks"}

C18_WriteScopeMayRead ==
  (resp.op \in ReadOperations /\ "write" \in resp.authContext.scopes)
    => resp.message # "insufficient-permissions"

(***************************************************************************)
(* C19: a step that handles delete_note or delete_notebook changes the     *)
(* stored notes or notebooks only if the context has the admin scope, the  *)
(* id is not empty and confirm is true; when one of the three is missing   *)
(* the response is an error and both tables stay as they were; and without *)
(* the admin scope the error is the one of the scope check, whatever the   *)
(* id and confirm are.                                                     *)
(***************************************************************************)
DeleteOperations == {"delete_note", "delete_notebook"}

DeleteAllowed(r) ==
  /\ "admin" \in r.authContext.scopes
  /\ "id" \in DOMAIN r.args /\ r.args.id # <<>>
  /\ "confirm" \in DOMAIN r.args /\ r.args.confirm = TRUE

C19_DeleteNeedsAdminIdConfirm ==
  [][ (resp = NoResponse /\ resp'.op \in DeleteOperations)
        => /\ (notes' # notes \/ notebooks' # notebooks) => DeleteAllowed(resp')
           /\ ~DeleteAllowed(resp')
                => (resp'.outcome = "error" /\ notes' = notes /\ notebooks' = notebooks)
           /\ "admin" \notin resp'.authContext.scopes
                => resp'.message = "insufficient-permissions" ]_vars

C19_Witness ==
  /\ resp.op = "delete_note"
  /\ resp.outcome = "ok"
  /\ DeleteAllowed(resp)
  /\ resp.args.id \notin DOMAIN notes
  /\ resp.noteIds = {resp.args.id}

(***************************************************************************)
(* C21: in the where-clause of buildNoteSearchFilters a notebookId that is *)
(* given and not empty yields equality with it, whatever notebookIds is;   *)
(* without it a notebookIds that is not empty yields membership in it; and *)
(* with neither the clause has no notebook predicate.                      *)
(***************************************************************************)
Supplied(key) == key \in DOMAIN filterCall.params /\ filterCall.params[key] # <<>>
SuppliedIds == "notebookIds" \in DOMAIN filterCall.params /\ filterCall.params.notebookIds # {}

C21_SingleIdTakesPrecedence ==
  filterCall.builder = "note"
    => /\ Supplied("notebookId")
            => filterCall.where.notebookId = [equals |-> filterCall.params.notebookId]
       /\ (~Supplied("notebookId") /\ SuppliedIds)
            => filterCall.where.notebookId = [in |-> filterCall.params.notebookIds]
       /\ (~Supplied("notebookId") /\ ~SuppliedIds)
            => "notebookId" \notin DOMAIN filterCall.where

C21_Witness ==
  /\ filterCall.builder = "note"
  /\ Supplied("notebookId")
  /\ SuppliedIds
  /\ filterCall.where.notebookId = [equals |-> filterCall.params.notebookId]

(***************************************************************************)
(* C22: in the where-clause of buildNoteSearchFilters the text search is   *)
(* there exactly when search is given and not empty, and is the OR of      *)
(* content contains and noteTitle contains, both insensitive; pageUrl      *)
(* contains is there exactly when domain is; createdAt.gte is there        *)
(* exactly when startDate is and createdAt.lte exactly when endDate is,    *)
(* each the Date of its own input; no input decides another's predicate.   *)
(***************************************************************************)
Bound(key) ==
  IF "createdAt" \in DOMAIN filterCall.where
  THEN key \in DOMAIN filterCall.where.createdAt
  ELSE FALSE

C22_EachPredicateFollowsItsInput ==
  filterCall.builder = "note"
    => /\ "OR" \in DOMAIN filterCall.where <=> Supplied("search")
       /\ Supplied("search")
            => filterCall.where["OR"] =
                 <<[field |-> "content", contains |-> filterCall.params.search,
                    mode |-> "insensitive"],
                   [field |-> "noteTitle", contains |-> filterCall.params.search,
                    mode |-> "insensitive"]>>
       /\ "pageUrl" \in DOMAIN filterCall.where <=> Supplied("domain")
       /\ Supplied("domain")
            => filterCall.where.pageUrl = [contains |-> filterCall.params.domain]
       /\ Bound("gte") <=> Supplied("startDate")
       /\ Bound("lte") <=> Supplied("endDate")
       /\ Supplied("startDate")
            => filterCall.where.createdAt.gte = NewDate(filterCall.params.startDate)
       /\ Supplied("endDate")
            => filterCall.where.createdAt.lte = NewDate(filterCall.params.endDate)
       /\ "createdAt" \in DOMAIN filterCall.where
            <=> (Supplied("startDate") \/ Supplied("endDate"))

C22_Witness ==
  /\ filterCall.builder = "note"
  /\ Supplied("search")
  /\ ~Supplied("domain")
  /\ ~Supplied("startDate")
  /\ Supplied("endDate")
  /\ DOMAIN filterCall.where.createdAt = {"lte"}
  /\ filterCall.where.createdAt.lte.valid

(***************************************************************************)
(* C23: normalizing a normalized text changes nothing.                     *)
(***************************************************************************)
C23_NormalizeIdempotent == normCall.applied => normCall.twice = normCall.once

C23_Witness ==
  /\ normCall.applied
  /\ normCall.once # normCall.text
  /\ normCall.once # <<>>
  /\ normCall.twice = normCall.once
  /\ \E i \in DOMAIN normCall.text : ~IsWordChar(normCall.text[i]) /\ ~IsWhitespace(normCall.text[i])
  /\ \E i \in DOMAIN normCall.once : normCall.once[i] = " "

(***************************************************************************)
(* C24: the normalized text is made of lower-case letters, digits,         *)
(* underscores and spaces only, neither starts nor ends with a space, has  *)
(* no two spaces in a row, is the text lowercased, then stripped of        *)
(* punctuation, then whitespace-collapsed, then trimmed, is the word       *)
(* characters of the text in lower case with one space wherever whitespace *)
(* lay between two of them, and is empty when the text has no word         *)
(* character.                                                              *)
(***************************************************************************)
CanonicalChars == Range(LowerChars) \cup Range(DigitChars) \cup {"_", " "}

RECURSIVE WordsJoined(_, _, _, _)
WordsJoined(text, i, seen, gap) ==
  IF i > Len(text) THEN <<>>
  ELSE IF IsWordChar(text[i])
       THEN (IF seen /\ gap THEN <<" ">> ELSE <<>>)
            \o <<toLowerCaseChar(text[i])>> \o WordsJoined(text, i + 1, TRUE, FALSE)
       ELSE WordsJoined(text, i + 1, seen, gap \/ IsWhitespace(text[i]))

C24_NormalizeCanonical ==
  normCall.applied
    => LET out == normCall.once
       IN /\ Range(out) \subseteq CanonicalChars
          /\ out # <<>> => (out[1] # " " /\ out[Len(out)] # " ")
          /\ \A i \in 1..(Len(out) - 1) : ~(out[i] = " " /\ out[i + 1] = " ")
          /\ out = Trim(CollapseWhitespace(RemovePunctuation(toLowerCase(normCall.text))))
          /\ out = WordsJoined(normCall.text, 1, FALSE, FALSE)
          /\ (\A i \in DOMAIN normCall.text : ~IsWordChar(normCall.text[i])) => out = <<>>

C24_Witness ==
  /\ normCall.applied
  /\ normCall.text = <<"\t", "A", " ", "!", " ">>
  /\ normCall.once = <<"a">>

(***************************************************************************)
(* C25: the limit that search_notes, search_notebooks, notes://list and    *)
(* notebooks://list pass to the query is an integer from 1 to 100, and is  *)
(* 20 when the client gives no limit.                                      *)
(***************************************************************************)
C25_EffectiveLimitInRange ==
  limitCall.op # "none"
    => /\ ~limitCall.limit.nan
       /\ limitCall.limit.n >= MinLimit
       /\ limitCall.limit.n <= MaxLimit
       /\ ~limitCall.given => limitCall.limit.n = DefaultLimit

(***************************************************************************)
(* C26: the step in which a call that missed the cache finds its match is  *)
(* at the first candidate, in the order of the lookup, whose hash verifies *)
(* the raw key; the context returned, the cache entry written and the one  *)
(* last-used update started are those of that candidate; the call has made *)
(* one verification per candidate up to it and makes none after it.        *)
(***************************************************************************)
Verifies(c, j) == calls[c].candidates[j].keyHash = BcryptHash(calls[c].apiKey)

C26_StopsAtFirstMatch ==
  [][ \A c \in DOMAIN calls :
        /\ VerifiedIn(c)
             => LET key == calls[c].candidates[calls[c].next]
                IN /\ Verifies(c, calls[c].next)
                   /\ \A j \in 1..(calls[c].next - 1) : ~Verifies(c, j)
                   /\ calls'[c].result = ContextOf(key)
                   /\ keyCache'[calls[c].apiKey] =
                        [userId |-> key.userId, scopes |-> key.scopes, keyId |-> key.id,
                         expiresAt |-> now + CacheTtlMs]
                   /\ lastUsedUpdates' = lastUsedUpdates \cup {[keyId |-> key.id, at |-> now]}
                   /\ calls'[c].compares = calls[c].next
        /\ (calls[c].pc = "done" /\ calls'[c].pc = "done")
             => calls'[c].compares = calls[c].compares ]_vars

C26_Witness ==
  \E c \in DOMAIN calls :
    /\ calls[c].pc = "done"
    /\ ~calls[c].hit
    /\ Len(calls[c].candidates) > 1
    /\ Verifies(c, 1)
    /\ Verifies(c, Len(calls[c].candidates))
    /\ calls[c].compares = 1
    /\ calls[c].result = ContextOf(calls[c].candidates[1])
    /\ keyCache[calls[c].apiKey].keyId = calls[c].candidates[1].id

(***************************************************************************)
(* C27: a step of a call other than the one that finds its match leaves    *)
(* the cache and the started last-used updates as they are, so a call that *)
(* ends with null has added, removed and altered no entry and started no   *)
(* update; the cache changes only in the step of a successful              *)
(* verification.                                                           *)
(***************************************************************************)
EndsNull(c) ==
  /\ calls[c].pc \in {"lookup", "compare"}
  /\ calls'[c].pc = "done"
  /\ calls'[c].result = NullContext

C27_FailureLeavesCache ==
  [][ /\ \A c \in DOMAIN calls :
           (calls'[c] # calls[c] /\ ~VerifiedIn(c))
             => (keyCache' = keyCache /\ lastUsedUpdates' = lastUsedUpdates)
      /\ \A c \in DOMAIN calls :
           EndsNull(c) => (keyCache' = keyCache /\ lastUsedUpdates' = lastUsedUpdates)
      /\ keyCache' # keyCache => \E c \in DOMAIN calls : VerifiedIn(c) ]_vars

C27_Witness ==
  \E c \in DOMAIN calls :
    /\ calls[c].pc = "done"
    /\ calls[c].result = NullContext
    /\ ~calls[c].hit
    /\ calls[c].error = "none"
    /\ calls[c].apiKey \in DOMAIN keyCache
    /\ keyCache[calls[c].apiKey].expiresAt <= calls[c].startedAt
    /\ lastUsedUpdates = {}

(***************************************************************************)
(* C28: the step in which a call is answered from the cache leaves the     *)
(* cache and the started updates as they are and makes no lookup and no    *)
(* verification; every entry expires exactly CacheTtlMs after the latest   *)
(* successful verification of its raw key; and a call is answered from the *)
(* cache only less than CacheTtlMs after such a verification.              *)
(***************************************************************************)
HitIn(c) ==
  /\ calls[c].pc = "idle"
  /\ calls'[c].pc = "done"
  /\ calls'[c].hit

C28_HitChangesNothing ==
  [][ /\ \A c \in DOMAIN calls :
           HitIn(c)
             => /\ keyCache' = keyCache
                /\ lastUsedUpdates' = lastUsedUpdates
                /\ calls'[c].lookups = 0
                /\ calls'[c].compares = 0
                /\ lastVerifiedAt[calls'[c].apiKey] # NullTime
                /\ now - lastVerifiedAt[calls'[c].apiKey] < CacheTtlMs
      /\ \A raw \in DOMAIN keyCache' :
           keyCache'[raw].expiresAt = lastVerifiedAt'[raw] + CacheTtlMs ]_vars

C28_Witness ==
  \E c \in DOMAIN calls :
    /\ calls[c].pc = "done"
    /\ calls[c].hit
    /\ calls[c].startedAt > calls[c].priorVerifiedAt
    /\ keyCache[calls[c].apiKey].expiresAt = calls[c].priorVerifiedAt + CacheTtlMs
    /\ lastUsedUpdates = {}

(***************************************************************************)
(* C29: update_note, delete_note, update_notebook and delete_notebook      *)
(* modify or remove only records of the calling tenant.  Whatever the      *)
(* call, every note and notebook of another tenant is the same afterwards. *)
(* A call that names the id of another tenant's note or notebook fails and *)
(* leaves both tables unchanged, and when it carries the scope (and, for a *)
(* delete, the confirmation) the tool demands, the error is the same       *)
(* not-found error that an id naming nothing gets.                         *)
(***************************************************************************)
RecordOperations == {"update_note", "delete_note", "update_notebook", "delete_notebook"}

TableOf(op, noteTable, notebookTable) ==
  IF op \in {"update_note", "delete_note"} THEN noteTable ELSE notebookTable

NamesForeignRecord(r) ==
  /\ "id" \in DOMAIN r.args
  /\ r.args.id \in DOMAIN TableOf(r.op, notes, notebooks)
  /\ TableOf(r.op, notes, notebooks)[r.args.id].userId # r.authContext.userId

PassesEarlierChecks(r) ==
  IF r.op \in {"update_note", "update_notebook"}
  THEN hasRequiredScope(r.authContext, "write")
  ELSE /\ hasRequiredScope(r.authContext, "admin")
       /\ "confirm" \in DOMAIN r.args
       /\ r.args.confirm

ServerKeyRecords ==
  {i \in 1..Len(apiKeys) : BcryptCompare(ServerApiKey, apiKeys[i].keyHash)}

ServerKeyValidForRead ==
  /\ ServerKeyRecords # {}
  /\ \A i \in ServerKeyRecords :
       /\ apiKeys[i].expiresAt = NullTime \/ apiKeys[i].expiresAt > now
       /\ "read" \in apiKeys[i].scopes

HealthAnswered(c) ==
  /\ calls[c].pc = "done"
  /\ resp = NoResponse
  /\ resp' # NoResponse
  /\ resp'.op = HealthUri

C30_UnreachableDatabaseReadsUnhealthy ==
  [][ \A c \in DOMAIN calls :
        (HealthAnswered(c) /\ ~dbReachable /\ ServerKeyValidForRead)
          => /\ resp'.outcome = "ok"
             /\ resp'.message = "unhealthy" ]_vars

=============================================================================
